---- MODULE Spec2Model ----
(***************************************************************************)
(* Pharma-Procure-Optimizer: the matching and cost-normalisation core      *)
(* (logic.py) as used by the ingestion code of app.py.                     *)
(*                                                                         *)
(* Text is a sequence of one-character strings.  A Python value that may   *)
(* be None, a string or a number is a record with a "kind" field.          *)
(* Floating-point amounts are exact rationals [n, d] with d > 0; round(x,4)*)
(* is the nearest multiple of 1/10000, exact ties going to the even one.   *)
(***************************************************************************)
EXTENDS Integers, Sequences, FiniteSets, TLC

VARIABLES
    pc,             \* position of the call under study: "start" or "done"
    pack_input,     \* parse_pack_size: the argument
    pack_result,    \* parse_pack_size: the returned value
    price,          \* calculate_euc: argument price
    pack_size,      \* calculate_euc: argument pack_size
    bonus_string,   \* calculate_euc: argument bonus_string
    euc_local,      \* calculate_euc: local effective_pack_price before rounding
    euc_result,     \* calculate_euc: the returned tuple (euc, margin, normalized)
    masters,        \* table master_products, in id order (id = position)
    aliases,        \* table product_aliases, in id order
    raw_name,       \* fuzzy_match: argument raw_name
    supplier_price, \* fuzzy_match: argument supplier_price
    fuzz,           \* fuzzy_match: the rapidfuzz scores of this call, per search text
    all_candidates, \* fuzzy_match: local all_candidates after the sort
    match_result,   \* fuzzy_match: the returned value
    alias_local,    \* fuzzy_match: local alias, the row read at line 94
    aliases_at_call,\* the alias table as it was when the call began
    simplified,     \* simplify_product_name: the returned value
    offers,         \* table supplier_offers, in id order
    history,        \* table price_history, in id order
    cart            \* st.session_state.cart

packVars == <<pack_input, pack_result>>
eucVars == <<price, pack_size, bonus_string, euc_local, euc_result>>
dbVars == <<masters, aliases>>
matchVars == <<raw_name, supplier_price, fuzz, all_candidates, match_result>>
concVars == <<alias_local, aliases_at_call>>
appVars == <<offers, history, cart>>
vars == <<pc, packVars, eucVars, dbVars, matchVars, concVars, simplified, appVars>>

(***************************************************************************)
(* Python values                                                           *)
(***************************************************************************)
None == [kind |-> "none"]
StrV(s) == [kind |-> "str", s |-> s]
IntV(n) == [kind |-> "int", n |-> n]
NoResult == [kind |-> "unset"]
\* float('inf'), and the outcome of a call that ends in an exception.
Inf == [kind |-> "inf"]
Raised(e) == [kind |-> "raised", exception |-> e]

(***************************************************************************)
(* Text helpers                                                            *)
(***************************************************************************)
DigitSeq == <<"0", "1", "2", "3", "4", "5", "6", "7", "8", "9">>
Digits == {DigitSeq[i] : i \in 1..10}
Whitespace == {" "}
DigitVal(c) == (CHOOSE i \in 1..10 : DigitSeq[i] = c) - 1

\* The first position of s that holds no whitespace (Len(s) + 1 if none),
\* and the last one (0 if none).
FirstNonSpace(s) ==
    CHOOSE j \in 1..(Len(s) + 1) :
        /\ \A k \in 1..(j - 1) : s[k] \in Whitespace
        /\ (j = Len(s) + 1 \/ s[j] \notin Whitespace)
LastNonSpace(s) ==
    CHOOSE j \in 0..Len(s) :
        /\ \A k \in (j + 1)..Len(s) : s[k] \in Whitespace
        /\ (j = 0 \/ s[j] \notin Whitespace)

UpperSeq ==
    <<"A", "B", "C", "D", "E", "F", "G", "H", "I", "J", "K", "L", "M",
      "N", "O", "P", "Q", "R", "S", "T", "U", "V", "W", "X", "Y", "Z">>
LowerSeq ==
    <<"a", "b", "c", "d", "e", "f", "g", "h", "i", "j", "k", "l", "m",
      "n", "o", "p", "q", "r", "s", "t", "u", "v", "w", "x", "y", "z">>
LowerChar(c) ==
    IF \E i \in 1..Len(UpperSeq) : UpperSeq[i] = c
    THEN LowerSeq[CHOOSE i \in 1..Len(UpperSeq) : UpperSeq[i] = c]
    ELSE c
Lower(s) == [i \in 1..Len(s) |-> LowerChar(s[i])]
UpperChar(c) ==
    IF \E i \in 1..Len(LowerSeq) : LowerSeq[i] = c
    THEN UpperSeq[CHOOSE i \in 1..Len(LowerSeq) : LowerSeq[i] = c]
    ELSE c
Upper(s) == [i \in 1..Len(s) |-> UpperChar(s[i])]

\* str.strip(): without the leading and trailing whitespace.
Strip(s) ==
    LET first == FirstNonSpace(s)
        last == LastNonSpace(s)
    IN  IF first > Len(s) THEN <<>> ELSE SubSeq(s, first, last)

\* The first position j >= i of s that is past the end or not in cs:
\* s[i..j-1] is the longest run of characters of cs starting at i.
SpanEnd(s, i, cs) ==
    CHOOSE j \in i..(Len(s) + 1) :
        /\ \A k \in i..(j - 1) : s[k] \in cs
        /\ (j = Len(s) + 1 \/ s[j] \notin cs)

RECURSIVE ToInt(_)
ToInt(ds) ==
    IF ds = <<>> THEN 0
    ELSE 10 * ToInt(SubSeq(ds, 1, Len(ds) - 1)) + DigitVal(ds[Len(ds)])

RECURSIVE NatToStr(_)
NatToStr(n) ==
    IF n < 10 THEN <<DigitSeq[n + 1]>>
    ELSE NatToStr(n \div 10) \o <<DigitSeq[(n % 10) + 1]>>
IntToStr(n) == IF n < 0 THEN <<"-">> \o NatToStr(0 - n) ELSE NatToStr(n)

\* All texts of length at most n over the alphabet a.
TextsUpTo(a, n) == UNION {[1..k -> a] : k \in 0..n}

(***************************************************************************)
(* parse_pack_size (logic.py)                                              *)
(***************************************************************************)
\* bool(pack_input) is False for None, "" and the number 0.
Falsy(v) ==
    \/ v.kind = "none"
    \/ v.kind = "str" /\ v.s = <<>>
    \/ v.kind = "int" /\ v.n = 0

StrOf(v) == IF v.kind = "int" THEN IntToStr(v.n) ELSE v.s

\* re.match(r"(\d+)\s*[x\*]\s*(\d+)", s): <<matched, group1, group2>>.
\* A shorter first group cannot help: the character after it is a digit.
MatchX(s) ==
    LET e1 == SpanEnd(s, 1, Digits)
        w1 == SpanEnd(s, e1, Whitespace)
        w2 == SpanEnd(s, w1 + 1, Whitespace)
        e2 == SpanEnd(s, w2, Digits)
    IN  IF /\ e1 > 1
           /\ w1 <= Len(s)
           /\ s[w1] \in {"x", "*"}
           /\ e2 > w2
        THEN <<TRUE, SubSeq(s, 1, e1 - 1), SubSeq(s, w2, e2 - 1)>>
        ELSE <<FALSE, <<>>, <<>>>>

\* re.search(r"(\d+)", s): <<found, group1>>, the leftmost longest digit run.
SearchDigitsLast(s) ==
    IF \E i \in 1..Len(s) : s[i] \in Digits
    THEN LET i == CHOOSE k \in 1..Len(s) :
                      /\ s[k] \in Digits
                      /\ k = 1 \/ s[k - 1] \notin Digits
                      /\ \A m \in SpanEnd(s, k, Digits)..Len(s) : s[m] \notin Digits
         IN  <<TRUE, SubSeq(s, i, SpanEnd(s, i, Digits) - 1)>>
    ELSE <<FALSE, <<>>>>
SearchDigits(s) ==
    IF \E i \in 1..Len(s) : s[i] \in Digits
    THEN LET i == CHOOSE k \in 1..Len(s) :
                      s[k] \in Digits /\ \A m \in 1..(k - 1) : s[m] \notin Digits
         IN  <<TRUE, SubSeq(s, i, SpanEnd(s, i, Digits) - 1)>>
    ELSE <<FALSE, <<>>>>

\* Lines 12-34 (parse_pack_size_case_sensitive: without the .lower() of line 22).
parse_pack_size_case_sensitive(v) ==
    IF Falsy(v) THEN 1
    ELSE LET s == StrOf(v)
             match_x == MatchX(s)
             match_digits == SearchDigits(s)
         IN  IF match_x[1] THEN ToInt(match_x[2]) * ToInt(match_x[3])
             ELSE IF match_digits[1] THEN ToInt(match_digits[2])
             ELSE 1
parse_pack_size(v) ==
    IF Falsy(v) THEN 1
    ELSE LET s == Lower(StrOf(v))
             match_x == MatchX(s)
             match_digits == SearchDigits(s)
         IN  IF match_x[1] THEN ToInt(match_x[2]) * ToInt(match_x[3])
             ELSE IF match_digits[1] THEN ToInt(match_digits[2])
             ELSE 1

(***************************************************************************)
(* The parts of the state a specification does not use                     *)
(***************************************************************************)
NoDb ==
    /\ masters = <<>>
    /\ aliases = <<>>
    /\ offers = <<>>
    /\ history = <<>>
    /\ cart = <<>>
NoSteps == alias_local = NoResult /\ aliases_at_call = NoResult
NoMatchCall ==
    /\ raw_name = NoResult
    /\ supplier_price = NoResult
    /\ fuzz = NoResult
    /\ all_candidates = NoResult
    /\ match_result = NoResult
    /\ NoSteps
    /\ simplified = NoResult
NoPackCall == pack_input = NoResult /\ pack_result = NoResult
NoEucCall ==
    /\ price = NoResult
    /\ pack_size = NoResult
    /\ bonus_string = NoResult
    /\ euc_local = NoResult
    /\ euc_result = NoResult

(***************************************************************************)
(* Inputs of parse_pack_size                                               *)
(***************************************************************************)
MaxPackLen == 3
PackAlphabet == {"0", "1", "2", "x", "X", "*", " ", "s"}
PackNumbers == {-3, 0, 1, 24}
PackExamples ==
    { <<"1", "0", "x", "1", "0">>, <<"5", "*", "2", "0">>,
      <<"3", " ", "x", " ", "1", "0">>, <<" ", "1", "0", "x", "1", "0", " ">>,
      <<"2", "4", "s">>, <<"1", "0", "0", "m", "l">>,
      <<"5", "0", "t", "a", "b", "s">>, <<"b", "o", "t", "t", "l", "e">>,
      <<"0", "x", "5">>, <<"0", ".", "5">> }
PackInputs ==
    {None} \cup {IntV(n) : n \in PackNumbers}
           \cup {StrV(s) : s \in TextsUpTo(PackAlphabet, MaxPackLen) \cup PackExamples}

InitPack ==
    /\ pc = "start"
    /\ pack_input \in PackInputs
    /\ pack_result = NoResult
    /\ price = NoResult
    /\ pack_size = NoResult
    /\ bonus_string = NoResult
    /\ euc_local = NoResult
    /\ euc_result = NoResult
    /\ NoDb
    /\ NoMatchCall

ParsePackSize ==
    /\ pc = "start"
    /\ pack_input # NoResult
    /\ pack_result' = IntV(parse_pack_size(pack_input))
    /\ pc' = "done"
    /\ UNCHANGED <<pack_input, eucVars, dbVars, matchVars, concVars, simplified, appVars>>

NextPack == ParsePackSize

SpecPack == InitPack /\ [][NextPack]_vars

(***************************************************************************)
(* Exact rational arithmetic for the floating-point amounts                *)
(***************************************************************************)
RECURSIVE Gcd(_, _)
Gcd(a, b) == IF b = 0 THEN a ELSE Gcd(b, a % b)
Abs(x) == IF x < 0 THEN 0 - x ELSE x
Max(a, b) == IF a >= b THEN a ELSE b

\* n / d in lowest terms, d > 0.
Rat(n, d) ==
    LET g == Gcd(Abs(n), d)
    IN  [n |-> n \div g, d |-> d \div g]
RatMul(a, b) == Rat(a.n * b.n, a.d * b.d)
RatDivInt(a, k) == Rat(a.n, a.d * k)
RatLe(a, b) == a.n * b.d <= b.n * a.d
RatLt(a, b) == a.n * b.d < b.n * a.d
Zero == Rat(0, 1)
One == Rat(1, 1)

\* The integer nearest to n / d (d > 0), an exact tie going to the even one.
RoundHalfEven(n, d) ==
    LET fl == n \div d
        rem == n - fl * d
    IN  IF 2 * rem > d THEN fl + 1
        ELSE IF 2 * rem < d THEN fl
        ELSE IF fl % 2 = 0 THEN fl ELSE fl + 1

\* round(q, k) for k decimals, scale = 10^k.
RoundTo(q, scale) == Rat(RoundHalfEven(q.n * scale, q.d), scale)
Round4(q) == RoundTo(q, 10000)
Round2(q) == RoundTo(q, 100)

(***************************************************************************)
(* calculate_euc (logic.py)                                                *)
(***************************************************************************)
\* Line 55, re.match(r"(\d+)[\+/](\d+)", s): <<matched, group1, group2>>.
\* MatchPlusOnly is the pattern without the "/" separator.
MatchPlusOnly(s) ==
    LET e1 == SpanEnd(s, 1, Digits)
        e2 == SpanEnd(s, e1 + 1, Digits)
    IN  IF /\ e1 > 1
           /\ e1 <= Len(s)
           /\ s[e1] = "+"
           /\ e2 > e1 + 1
        THEN <<TRUE, SubSeq(s, 1, e1 - 1), SubSeq(s, e1 + 1, e2 - 1)>>
        ELSE <<FALSE, <<>>, <<>>>>
MatchPlus(s) ==
    LET e1 == SpanEnd(s, 1, Digits)
        e2 == SpanEnd(s, e1 + 1, Digits)
    IN  IF /\ e1 > 1
           /\ e1 <= Len(s)
           /\ s[e1] \in {"+", "/"}
           /\ e2 > e1 + 1
        THEN <<TRUE, SubSeq(s, 1, e1 - 1), SubSeq(s, e1 + 1, e2 - 1)>>
        ELSE <<FALSE, <<>>, <<>>>>

\* Line 65, re.match(r"Bonus\s*(\d+)%", s, re.IGNORECASE): <<matched, group1>>.
BonusWord == <<"b", "o", "n", "u", "s">>
MatchPerc(s) ==
    LET w == Len(BonusWord) + 1
        d1 == SpanEnd(s, w, Whitespace)
        e1 == SpanEnd(s, d1, Digits)
    IN  IF /\ Len(s) >= Len(BonusWord)
           /\ Lower(SubSeq(s, 1, Len(BonusWord))) = BonusWord
           /\ e1 > d1
           /\ e1 <= Len(s)
           /\ s[e1] = "%"
        THEN <<TRUE, SubSeq(s, d1, e1 - 1)>>
        ELSE <<FALSE, <<>>>>

\* Line 63: the factor of a "buy+free" deal, buy_qty / total_qty
\* (PlusFactorInverted: the quotient taken the other way round).
PlusFactorInverted(buy_qty, free_qty) == Rat(buy_qty + free_qty, buy_qty)
PlusFactor(buy_qty, free_qty) == Rat(buy_qty, buy_qty + free_qty)

\* Line 69: the factor of a "Bonus p%" deal, 100 / (100 + percent).
PercFactor(percent) == Rat(100, 100 + percent)

\* Lines 52-69: effective_pack_price for the given price and bonus text.
EffectivePackPrice(p, b) ==
    IF Falsy(b) THEN p
    ELSE LET match_plus == MatchPlus(b.s)
             match_perc == MatchPerc(b.s)
             buy_qty == ToInt(match_plus[2])
             free_qty == ToInt(match_plus[3])
             after_plus ==
                 IF match_plus[1] /\ buy_qty > 0
                 THEN RatMul(p, PlusFactor(buy_qty, free_qty))
                 ELSE p
         IN  IF match_perc[1]
             THEN RatMul(p, PercFactor(ToInt(match_perc[2])))
             ELSE after_plus

\* Line 75: the divisor max(1, pack_size)
\* (PackDivisorAbs: the size of a negative pack taken as its magnitude).
PackDivisorAbs(ps) == Max(1, Abs(ps))
PackDivisor(ps) == Max(1, ps)

\* Lines 71-77: the returned tuple (euc, margin, normalized_cost)
\* (calculate_euc_rounded_first: the division taking the rounded euc).
calculate_euc_rounded_first(p, ps, b) ==
    LET euc == Round4(EffectivePackPrice(p, b))
    IN  <<euc, Round2(Zero), Round4(RatDivInt(euc, PackDivisor(ps)))>>
calculate_euc(p, ps, b) ==
    LET euc == EffectivePackPrice(p, b)
        margin == Zero
        normalized_cost == RatDivInt(euc, PackDivisor(ps))
    IN  <<Round4(euc), Round2(margin), Round4(normalized_cost)>>

(***************************************************************************)
(* Inputs of calculate_euc                                                 *)
(***************************************************************************)
MaxBonusLen == 3
BonusAlphabet == {"0", "1", "2", "+", "/", "%", " "}
BonusPrefixes == {<<>>, <<"B", "o", "n", "u", "s">>, <<"b", "o", "n", "u", "s">>}
BonusExamples ==
    { <<"1", "0", "+", "2">>, <<"1", "0", "/", "2">>,
      <<"B", "o", "n", "u", "s", " ", "1", "0", "%">>,
      <<"b", "o", "n", "u", "s", " ", "1", "0", "%">>,
      <<"B", "o", "n", "u", "s", " ", "1", "0", " ", "%">>,
      <<"B", "o", "n", "u", "s", " ", "2", ".", "5", "%">>,
      <<"f", "r", "e", "e">> }
BonusInputs ==
    {None} \cup {StrV(s) : s \in
                    {pre \o t : pre \in BonusPrefixes,
                                t \in TextsUpTo(BonusAlphabet, MaxBonusLen)}
                    \cup BonusExamples}
Prices == {Rat(-1, 1), Zero, Rat(7, 100000), Rat(1, 2), One, Rat(2, 1), Rat(100, 1)}
PackSizes == {-2, 0, 1, 2, 10}
\* Pack-size cells of supplier rows, parsed by the upload loop of app.py
\* (pack_val = parse_pack_size(row[col_pack])) before calculate_euc.
RowPackTexts == {<<"0">>, <<"0", "x", "5">>, <<"2", "4", "s">>}

InitEuc ==
    /\ pc = "start"
    /\ pack_input \in {NoResult} \cup {StrV(s) : s \in RowPackTexts}
    /\ pack_result = NoResult
    /\ price \in Prices
    /\ pack_size \in (IF pack_input = NoResult THEN PackSizes
                       ELSE {parse_pack_size(pack_input)})
    /\ bonus_string \in BonusInputs
    /\ euc_local = NoResult
    /\ euc_result = NoResult
    /\ NoDb
    /\ NoMatchCall

CalculateEuc ==
    /\ pc = "start"
    /\ price # NoResult
    /\ euc_local' = EffectivePackPrice(price, bonus_string)
    /\ euc_result' = calculate_euc(price, pack_size, bonus_string)
    /\ pc' = "done"
    /\ UNCHANGED <<packVars, price, pack_size, bonus_string, dbVars, matchVars,
                   concVars, simplified, appVars>>

NextEuc == CalculateEuc

SpecEuc == InitEuc /\ [][NextEuc]_vars

(***************************************************************************)
(* round(r / p, 4) as Python computes it in double precision, for          *)
(* r = k / 10000 (a value already rounded to 4 decimals) and an integer    *)
(* p >= 1.  Off a decimal tie the nearest multiple of 1/10000 is returned. *)
(* On a tie the result follows the double x = fl(fl(r) / p): up when x is  *)
(* above the tie, down when below, to the even neighbour when x is exact.  *)
(* The position of x is computed from the remainders of k * 2^e modulo     *)
(* 625 * q, with q the odd part of p.  The result is in units of 1/10000.  *)
(***************************************************************************)
RECURSIVE Pow2(_)
Pow2(e) == IF e = 0 THEN 1 ELSE 2 * Pow2(e - 1)
RECURSIVE Pow2Mod(_, _)
Pow2Mod(e, m) == IF e = 0 THEN 1 % m ELSE (2 * Pow2Mod(e - 1, m)) % m
RECURSIVE FloorLog2(_, _)
FloorLog2(n, d) ==
    IF n >= 2 * d THEN 1 + FloorLog2(n, 2 * d)
    ELSE IF n < d THEN FloorLog2(2 * n, d) - 1
    ELSE 0
RECURSIVE TwoExponent(_)
TwoExponent(p) == IF p % 2 = 0 THEN 1 + TwoExponent(p \div 2) ELSE 0

PyRoundQuotPos(k, p) ==
    LET fl == k \div p
        rem == k - fl * p
        c == TwoExponent(p)
        q == p \div Pow2(c)
        a == FloorLog2(k, 10000)
        b == FloorLog2(k, 10000 * p)
        R1 == ((k % 625) * Pow2Mod(48 - a, 625)) % 625
        e1 == IF 2 * R1 < 625 THEN 0 - R1 ELSE 625 - R1
        m == 625 * q
        R2 == ((k % m) * Pow2Mod(48 - b - c, m)) % m
        num == R2 + e1 * Pow2(a - b - c)
    IN  IF 2 * rem > p THEN fl + 1
        ELSE IF 2 * rem < p THEN fl
        ELSE IF R2 = 0 /\ 2 * Abs(num) < m
             THEN (IF fl % 2 = 0 THEN fl ELSE fl + 1)
        ELSE IF 2 * num > m THEN fl + 1
        ELSE fl
PyRoundQuot(k, p) ==
    IF k = 0 THEN 0
    ELSE IF k < 0 THEN 0 - PyRoundQuotPos(0 - k, p)
    ELSE PyRoundQuotPos(k, p)

\* A value rounded to 4 decimals, in units of 1/10000.
Ticks(q) == q.n * (10000 \div q.d)

(***************************************************************************)
(* The bonus grammars, stated on the text                                  *)
(***************************************************************************)
AllDigits(s) == s # <<>> /\ \A i \in 1..Len(s) : s[i] \in Digits
AllWhitespace(s) == \A i \in 1..Len(s) : s[i] \in Whitespace

\* s is <digits><sep><digits> with the separator at position i.
PlusFormAt(s, i) ==
    /\ s[i] \in {"+", "/"}
    /\ AllDigits(SubSeq(s, 1, i - 1))
    /\ AllDigits(SubSeq(s, i + 1, Len(s)))
PlusForm(s) == \E i \in 1..Len(s) : PlusFormAt(s, i)
PlusBuy(s) == ToInt(SubSeq(s, 1, (CHOOSE i \in 1..Len(s) : PlusFormAt(s, i)) - 1))
PlusFree(s) ==
    ToInt(SubSeq(s, (CHOOSE i \in 1..Len(s) : PlusFormAt(s, i)) + 1, Len(s)))

HasBonusWord(s) ==
    Len(s) >= Len(BonusWord) /\ Lower(SubSeq(s, 1, Len(BonusWord))) = BonusWord

\* "Bonus <number>%": the word in any letter case, one space, an integer
\* number from position 7 to j, optional whitespace, the % sign.
PercentFormAt(s, j) ==
    /\ HasBonusWord(s)
    /\ j >= Len(BonusWord) + 2
    /\ Len(s) >= j + 1
    /\ s[Len(BonusWord) + 1] = " "
    /\ AllDigits(SubSeq(s, Len(BonusWord) + 2, j))
    /\ AllWhitespace(SubSeq(s, j + 1, Len(s) - 1))
    /\ s[Len(s)] = "%"
PercentForm(s) == \E j \in 1..Len(s) : PercentFormAt(s, j)
PercentOf(s) ==
    ToInt(SubSeq(s, Len(BonusWord) + 2, CHOOSE j \in 1..Len(s) : PercentFormAt(s, j)))

\* The text begins with a bonus expression one of the two patterns of
\* calculate_euc accepts: <digits><+ or /><digit>, or the bonus word,
\* optional whitespace, digits and the % sign.
BeginsWithPlus(s) ==
    \E i \in 1..Len(s) :
        /\ i < Len(s)
        /\ s[i] \in {"+", "/"}
        /\ AllDigits(SubSeq(s, 1, i - 1))
        /\ s[i + 1] \in Digits
BeginsWithPercent(s) ==
    /\ HasBonusWord(s)
    /\ \E i, j \in 1..Len(s) :
        /\ i > Len(BonusWord)
        /\ AllWhitespace(SubSeq(s, Len(BonusWord) + 1, i - 1))
        /\ AllDigits(SubSeq(s, i, j - 1))
        /\ s[j] = "%"
Recognized(b) ==
    b.kind = "str" /\ (BeginsWithPlus(b.s) \/ BeginsWithPercent(b.s))

(***************************************************************************)
(* Claims on parse_pack_size (SpecPack)                                    *)
(***************************************************************************)
\* C5: parse_pack_size returns an integer >= 1 for every input, including
\* texts whose first integer is 0 such as "0" or "0x5".
C5_PackSizeAtLeastOne ==
    pc = "done" /\ pack_input # NoResult => pack_result.n >= 1

(***************************************************************************)
(* Claims on calculate_euc (SpecEuc)                                       *)
(***************************************************************************)
EucDone == pc = "done" /\ euc_result # NoResult

TenPlusTwo == StrV(<<"1", "0", "+", "2">>)
C7_PlusDeal ==
    EucDone =>
        /\ (bonus_string.kind = "str" /\ PlusForm(bonus_string.s)) =>
              euc_local =
                  (IF PlusBuy(bonus_string.s) > 0
                   THEN RatMul(price, Rat(PlusBuy(bonus_string.s),
                                          PlusBuy(bonus_string.s) + PlusFree(bonus_string.s)))
                   ELSE price)
        /\ (price = Rat(100, 1) /\ pack_size = 10 /\ bonus_string = TenPlusTwo) =>
              /\ euc_result[1] = Rat(833333, 10000)
              /\ euc_result[3] = Rat(83333, 10000)
C7_Witness ==
    /\ EucDone
    /\ price = Rat(100, 1)
    /\ pack_size = 10
    /\ bonus_string = TenPlusTwo
    /\ euc_result[1] = Rat(833333, 10000)

\* C8: every text "Bonus <number>%", in any letter case and with optional
\* whitespace before the % sign, gives multiplier 100 / (100 + percent).
C8_PercentGrammar ==
    EucDone =>
        ((bonus_string.kind = "str" /\ PercentForm(bonus_string.s)) =>
            euc_local = RatMul(price, Rat(100, 100 + PercentOf(bonus_string.s))))

\* C9 as stated, for the prices >= 0 of the contract: the returned
\* normalized cost is the returned (already rounded) effective price divided
\* by max(1, pack_size), rounded to 4 decimals.
C9_DividesRoundedPrice ==
    (EucDone /\ RatLe(Zero, price)) =>
        Ticks(euc_result[3]) = PyRoundQuot(Ticks(euc_result[1]), Max(1, pack_size))

\* C9 amended: the effective price is round(price * multiplier, 4) and the
\* normalized cost is round(price * multiplier / max(1, pack_size), 4), the
\* division taking the unrounded product; it is within 0.0001 of the
\* rounded effective price divided by max(1, pack_size) and rounded.
C9_DividesUnroundedPrice ==
    EucDone =>
        /\ euc_result[1] = Round4(euc_local)
        /\ euc_result[3] = Round4(RatDivInt(euc_local, Max(1, pack_size)))
        /\ Abs(Ticks(euc_result[3])
               - PyRoundQuot(Ticks(euc_result[1]), Max(1, pack_size))) <= 1
C9_Witness ==
    /\ EucDone
    /\ RatLe(Zero, price)
    /\ euc_result[1] # euc_local
    /\ pack_size > 1
    /\ Ticks(euc_result[3]) # PyRoundQuot(Ticks(euc_result[1]), Max(1, pack_size))

\* C10: for every pack_size <= 0, including the 0 parse_pack_size returns
\* for a supplier row, the divisor is 1: the normalized cost equals the
\* effective price.
C10_PackSizeClamped ==
    (EucDone /\ pack_size <= 0) =>
        /\ euc_result[3] = euc_result[1]
        /\ euc_result[3] = Round4(euc_local)
C10_Witness ==
    /\ EucDone
    /\ pack_input = StrV(<<"0">>)
    /\ pack_size = 0
    /\ price = Rat(100, 1)
    /\ euc_result[3] = Rat(100, 1)

(***************************************************************************)
(* simplify_product_name (simplify_names.py)                               *)
(*                                                                         *)
(* A pattern is a sequence of elements: a one-character string is that     *)
(* literal character, "\\b" a word boundary, "\\d+" and "\\d*" a longest   *)
(* run of digits (of at least one, of any number), "\\s+" a longest run of *)
(* whitespace, "\\.?" an optional dot, ".*$" the rest of the text.  In the *)
(* patterns of this module the character after a run is never of the run's *)
(* class, so the longest run is the only one a regex match can use.        *)
(***************************************************************************)
WordChars ==
    {UpperSeq[i] : i \in 1..Len(UpperSeq)} \cup {LowerSeq[i] : i \in 1..Len(LowerSeq)}
        \cup Digits \cup {"_"}
IsWordAt(s, i) == i >= 1 /\ i <= Len(s) /\ s[i] \in WordChars

\* The position after the match of pat[k..] at position i of s, 0 if none.
RECURSIVE MatchFrom(_, _, _, _)
MatchFrom(s, i, pat, k) ==
    IF k > Len(pat) THEN i
    ELSE LET el == pat[k]
         IN  CASE el = "\\b" ->
                      IF IsWordAt(s, i - 1) # IsWordAt(s, i)
                      THEN MatchFrom(s, i, pat, k + 1) ELSE 0
               [] el = "\\d+" ->
                      IF SpanEnd(s, i, Digits) > i
                      THEN MatchFrom(s, SpanEnd(s, i, Digits), pat, k + 1) ELSE 0
               [] el = "\\d*" -> MatchFrom(s, SpanEnd(s, i, Digits), pat, k + 1)
               [] el = "\\s+" ->
                      IF SpanEnd(s, i, Whitespace) > i
                      THEN MatchFrom(s, SpanEnd(s, i, Whitespace), pat, k + 1) ELSE 0
               [] el = "\\.?" ->
                      IF i <= Len(s) /\ s[i] = "."
                      THEN MatchFrom(s, i + 1, pat, k + 1)
                      ELSE MatchFrom(s, i, pat, k + 1)
               [] el = ".*$" -> Len(s) + 1
               [] OTHER ->
                      IF i <= Len(s) /\ s[i] = el
                      THEN MatchFrom(s, i + 1, pat, k + 1) ELSE 0

\* re.sub(pat, ' ', s) from position i on: every match, found left to
\* right, becomes one space.
RECURSIVE SubFrom(_, _, _)
SubFrom(s, i, pat) ==
    IF i > Len(s) THEN <<>>
    ELSE LET e == MatchFrom(s, i, pat, 1)
         IN  IF e > i THEN <<" ">> \o SubFrom(s, e, pat)
             ELSE <<s[i]>> \o SubFrom(s, i + 1, pat)

\* Lines 23-45: noise_patterns, in the order applied.  The name is in upper
\* case (line 20), so re.IGNORECASE changes nothing.
noise_patterns ==
    << <<"\\b", "B", "P", "\\b">>,
       <<"\\b", "U", "S", "P", "\\b">>,
       <<"\\b", "B", ".", "P", ".", "\\b">>,
       <<"\\b", "U", ".", "S", ".", "P", ".", "\\b">>,
       <<"I", "N", "F", "U", "S", "I", "O", "N", "/", "S", "O", "L", "U", "T", "I", "O", "N", " ", "F", "O", "R">>,
       <<"I", "N", "F", "U", "S", "I", "O", "N", " ", "F", "O", "R">>,
       <<"S", "O", "L", "U", "T", "I", "O", "N", " ", "F", "O", "R">>,
       <<"I", "N", "J", "E", "C", "T", "I", "O", "N", " ", "F", "O", "R">>,
       <<",", ".*$">>,
       <<"\\d+", "M", "L", " ", "P", "L", "A", "S", "T", "I", "C", " ", "B", "A", "G">>,
       <<"\\d+", "M", "L", " ", "P", "L", "A", "S", "T", "I", "C", " ", "B", "O", "T", "T", "L", "E">>,
       <<"\\d+", "M", "L", " ", "G", "L", "A", "S", "S", " ", "V", "I", "A", "L">>,
       <<"\\d+", "M", "L", " ", "G", "L", "A", "S", "S", " ", "B", "O", "T", "T", "L", "E">>,
       <<"P", "L", "A", "S", "T", "I", "C", " ", "B", "A", "G">>,
       <<"P", "L", "A", "S", "T", "I", "C", " ", "B", "O", "T", "T", "L", "E">>,
       <<"G", "L", "A", "S", "S", " ", "V", "I", "A", "L">>,
       <<"G", "L", "A", "S", "S", " ", "B", "O", "T", "T", "L", "E">>,
       <<"B", "L", "I", "S", "T", "E", "R", " ", "P", "A", "C", "K">>,
       <<"S", "T", "R", "I", "P">>,
       <<"\\d+", "'", "S", "\\b">>,
       <<"\\d+", "S", "\\b">> >>

\* Lines 47-48: the patterns from position k on applied in turn.
RECURSIVE SubAll(_, _, _)
SubAll(s, pats, k) ==
    IF k > Len(pats) THEN s ELSE SubAll(SubFrom(s, 1, pats[k]), pats, k + 1)

\* Lines 51-52: the concentration patterns.
InPercentWV == <<"\\b", "I", "N", "\\s+", "\\d+", "\\.?", "\\d*", "%", "\\s+", "W", "/", "V", "\\b">>
WV == <<"\\b", "W", "/", "V", "\\b">>

\* Line 55, ' '.join(name.split()): no leading or trailing whitespace and
\* one space for every run of whitespace inside.
RECURSIVE Collapse(_)
Collapse(s) ==
    LET first == FirstNonSpace(s)
    IN  IF first > Len(s) THEN <<>>
        ELSE LET e == CHOOSE j \in first..(Len(s) + 1) :
                          /\ \A k \in first..(j - 1) : s[k] \notin Whitespace
                          /\ (j = Len(s) + 1 \/ s[j] \in Whitespace)
                 tail == Collapse(SubSeq(s, e, Len(s)))
             IN  SubSeq(s, first, e - 1)
                     \o (IF tail = <<>> THEN <<>> ELSE <<" ">> \o tail)

\* Line 59: the dosage-form keywords of the alternation, in its order.
FormKeywords ==
    << <<"I", "N", "J", "E", "C", "T", "I", "O", "N">>,
       <<"I", "N", "F", "U", "S", "I", "O", "N">>,
       <<"T", "A", "B", "L", "E", "T">>,
       <<"C", "A", "P", "S", "U", "L", "E">>,
       <<"S", "Y", "R", "U", "P">>,
       <<"S", "U", "S", "P", "E", "N", "S", "I", "O", "N">> >>

StartsAt(s, i, w) == i + Len(w) - 1 <= Len(s) /\ SubSeq(s, i, i + Len(w) - 1) = w

\* re.match(r'^(.*?)\s+(KW1|KW2|...)', s) for the keywords kws:
\* <<matched, group1, group2>>, group1 the shortest prefix that whitespace
\* and a keyword follow.
MatchCore(s, kws) ==
    LET Hit(i) == /\ s[i] \in Whitespace
                  /\ \E k \in 1..Len(kws) : StartsAt(s, SpanEnd(s, i, Whitespace), kws[k])
    IN  IF \E i \in 1..Len(s) : Hit(i)
        THEN LET i == CHOOSE i \in 1..Len(s) : Hit(i) /\ \A j \in 1..(i - 1) : ~Hit(j)
                 k == CHOOSE k \in 1..Len(kws) :
                          /\ StartsAt(s, SpanEnd(s, i, Whitespace), kws[k])
                          /\ \A m \in 1..(k - 1) :
                                 ~StartsAt(s, SpanEnd(s, i, Whitespace), kws[m])
             IN  <<TRUE, SubSeq(s, 1, i - 1), kws[k]>>
        ELSE <<FALSE, <<>>, <<>>>>

\* Lines 6-64.
simplify_product_name(raw) ==
    IF raw = <<>> THEN <<>>
    ELSE LET upper == Strip(Upper(raw))
             denoised == SubAll(upper, noise_patterns, 1)
             no_conc == SubFrom(SubFrom(denoised, 1, InPercentWV), 1, WV)
             name == Collapse(no_conc)
             match == MatchCore(name, FormKeywords)
         IN  Strip(IF match[1] THEN match[2] \o <<" ">> \o match[3] ELSE name)

(***************************************************************************)
(* Configuration (config.py) and the result limit of process.extract       *)
(***************************************************************************)
MATCH_CUTOFF_TOKEN_SORT == 85
MATCH_CUTOFF_TOKEN_SET == 85
MATCH_CUTOFF_PARTIAL == 90
MATCH_SCORE_TOLERANCE == 3
CONFIDENCE_HIGH_SCORE == 95
CONFIDENCE_MEDIUM_SCORE == 85
ExtractLimit == 10

(***************************************************************************)
(* fuzzy_match (logic.py)                                                  *)
(*                                                                         *)
(* A master product is [product_name, simplified_name, standard_cost], its *)
(* id its position in masters.  An alias is [alias_name,                   *)
(* master_product_id].  rapidfuzz is outside the repository: its scores    *)
(* are an input of the call, fz[text] = <<token_sort_ratio,                *)
(* token_set_ratio, partial_ratio>> of the normalized raw name against     *)
(* the search text, so that equal search texts get equal scores.           *)
(***************************************************************************)
\* Lines 122-126: the scorers in the order tried, with their cutoffs
\* (ScorerCutoffsLow: the first cutoff at its earlier, lower value).
ScorerNames == <<"token_sort_ratio", "token_set_ratio", "partial_ratio">>
ScorerCutoffsLow == <<70, MATCH_CUTOFF_TOKEN_SET, MATCH_CUTOFF_PARTIAL>>
ScorerCutoffs ==
    <<MATCH_CUTOFF_TOKEN_SORT, MATCH_CUTOFF_TOKEN_SET, MATCH_CUTOFF_PARTIAL>>

\* Line 94: query(ProductAlias).filter(alias_name == raw_name).first():
\* the position of the row with the lowest id, 0 when there is none.
FirstAlias(raw, al) ==
    IF \E i \in 1..Len(al) : al[i].alias_name = raw
    THEN CHOOSE i \in 1..Len(al) :
             /\ al[i].alias_name = raw
             /\ \A j \in 1..(i - 1) : al[j].alias_name # raw
    ELSE 0

\* Line 104: raw_name.upper().strip().
Normalize(raw) == Strip(Upper(raw))

\* Line 115: (m.simplified_name or m.product_name).upper().
SearchTextCanonicalOnly(m) == Upper(m.simplified_name)
SearchText(m) ==
    Upper(IF m.simplified_name = <<>> THEN m.product_name ELSE m.simplified_name)

\* Lines 117 and 164: master_prices.get(master_id, 0) or 0.
MasterPrice(ms, id) ==
    IF ms[id].standard_cost.kind = "none" THEN 0 ELSE ms[id].standard_cost.n

ScoreOf(ms, fz, k, id) == fz[SearchText(ms[id])][k]

\* The position of the first element of cs with the highest score.
FirstMax(cs) ==
    CHOOSE i \in 1..Len(cs) :
        /\ \A j \in 1..Len(cs) : cs[j][2] <= cs[i][2]
        /\ \A j \in 1..(i - 1) : cs[j][2] < cs[i][2]
RemoveAt(cs, i) == SubSeq(cs, 1, i - 1) \o SubSeq(cs, i + 1, Len(cs))

\* Line 148: sort(key=score, reverse=True), a stable sort by score descending.
RECURSIVE SortByScoreDesc(_)
SortByScoreDesc(cs) ==
    IF cs = <<>> THEN <<>>
    ELSE LET i == FirstMax(cs)
         IN  <<cs[i]>> \o SortByScoreDesc(RemoveAt(cs, i))

Take(cs, n) == SubSeq(cs, 1, IF Len(cs) < n THEN Len(cs) ELSE n)

\* Lines 132-142: process.extract for scorer k: the entries whose score
\* reaches the cutoff, best first (equal scores in id order), at most
\* ExtractLimit of them, as (master_id, score, scorer name).
ExtractUnlimited(ms, fz, k) ==
    LET ids == [i \in 1..Len(ms) |-> i]
        hits == SelectSeq(ids, LAMBDA i : ScoreOf(ms, fz, k, i) >= ScorerCutoffs[k])
        found == [j \in 1..Len(hits) |->
                     <<hits[j], ScoreOf(ms, fz, k, hits[j]), ScorerNames[k]>>]
    IN  SortByScoreDesc(found)
Extract(ms, fz, k) ==
    LET ids == [i \in 1..Len(ms) |-> i]
        hits == SelectSeq(ids, LAMBDA i : ScoreOf(ms, fz, k, i) >= ScorerCutoffs[k])
        found == [j \in 1..Len(hits) |->
                     <<hits[j], ScoreOf(ms, fz, k, hits[j]), ScorerNames[k]>>]
    IN  Take(SortByScoreDesc(found), ExtractLimit)

\* Lines 130-148: all_candidates after the sort.
AllCandidates(ms, fz) ==
    SortByScoreDesc(Extract(ms, fz, 1) \o Extract(ms, fz, 2) \o Extract(ms, fz, 3))

\* Line 156: the candidates within the tolerance of the top score.
CloseMatches(cands) ==
    SelectSeq(cands, LAMBDA c : c[2] >= cands[1][2] - MATCH_SCORE_TOLERANCE)

\* Lines 164-165: abs(supplier_price - master_price), infinite for an
\* infinite price.
PriceDiff(ms, sp, c) ==
    IF sp.kind = "inf" THEN Inf ELSE IntV(Abs(sp.n - MasterPrice(ms, c[1])))
DiffLess(a, b) == a.kind = "int" /\ (b.kind = "inf" \/ a.n < b.n)

\* Lines 160-169: the loop over close_matches from position i on; best is
\* the position of the candidate picked so far, 0 for best_match_id = None
\* and best_price_diff = inf.  The value is best_match_id, 0 for None.
RECURSIVE PickByPrice(_, _, _, _, _)
PickByPrice(ms, sp, close, i, best) ==
    IF i > Len(close) THEN (IF best = 0 THEN 0 ELSE close[best][1])
    ELSE LET best_price_diff ==
                 IF best = 0 THEN Inf ELSE PriceDiff(ms, sp, close[best])
         IN  IF DiffLess(PriceDiff(ms, sp, close[i]), best_price_diff)
             THEN PickByPrice(ms, sp, close, i + 1, i)
             ELSE PickByPrice(ms, sp, close, i + 1, best)

\* Line 173: next(c[1] for c in close_matches if c[0] == best_match_id),
\* which raises StopIteration when no candidate has that id: 0 here.
LastScoreOf(close, id) ==
    IF \E i \in 1..Len(close) : close[i][1] = id
    THEN close[CHOOSE i \in 1..Len(close) :
                   close[i][1] = id /\ \A j \in (i + 1)..Len(close) : close[j][1] # id][2]
    ELSE 0
FirstScoreOf(close, id) ==
    IF \E i \in 1..Len(close) : close[i][1] = id
    THEN close[CHOOSE i \in 1..Len(close) :
                   close[i][1] = id /\ \A j \in 1..(i - 1) : close[j][1] # id][2]
    ELSE 0

\* Line 151: "supplier_price and supplier_price > 0"
\* (UsablePriceNonNegative: a price of 0 taken as usable).
UsablePriceNonNegative(sp) == sp.kind = "inf" \/ (sp.kind = "int" /\ sp.n >= 0)
UsablePrice(sp) == sp.kind = "inf" \/ (sp.kind = "int" /\ sp.n # 0 /\ sp.n > 0)

\* Lines 150-181: <<final_match, final_score>>, <<0, 0>> when line 173
\* raises (SelectTopScore: final_score taken from the head of the list).
SelectTopScore(ms, sp, cands) ==
    IF UsablePrice(sp)
    THEN LET close_matches == CloseMatches(cands)
         IN  IF Len(close_matches) > 1
             THEN LET best_match_id == PickByPrice(ms, sp, close_matches, 1, 0)
                  IN  IF best_match_id = 0 THEN <<0, 0>>
                      ELSE <<best_match_id, cands[1][2]>>
             ELSE <<close_matches[1][1], close_matches[1][2]>>
    ELSE <<cands[1][1], cands[1][2]>>
Select(ms, sp, cands) ==
    IF UsablePrice(sp)
    THEN LET close_matches == CloseMatches(cands)
         IN  IF Len(close_matches) > 1
             THEN LET best_match_id == PickByPrice(ms, sp, close_matches, 1, 0)
                  IN  <<IF FirstScoreOf(close_matches, best_match_id) = 0
                        THEN 0 ELSE best_match_id,
                        FirstScoreOf(close_matches, best_match_id)>>
             ELSE <<close_matches[1][1], close_matches[1][2]>>
    ELSE <<cands[1][1], cands[1][2]>>

\* Lines 183-187.
Confidence(final_score) ==
    IF final_score >= CONFIDENCE_HIGH_SCORE THEN "High"
    ELSE IF final_score >= CONFIDENCE_MEDIUM_SCORE THEN "Medium"
    ELSE "Low"

\* Lines 95-101; alias.master_product is None for an alias whose master
\* row does not exist, and line 97 then raises AttributeError.
AliasResult(ms, a) ==
    IF a.master_product_id \in 1..Len(ms)
    THEN [kind |-> "match",
          match_name |-> ms[a.master_product_id].product_name,
          master_id |-> a.master_product_id,
          score |-> 100,
          confidence |-> "High (Alias)"]
    ELSE Raised("AttributeError")

\* Lines 103-194: the part after the alias check.
FuzzyPart(ms, sp, fz) ==
    IF Len(ms) = 0 THEN None
    ELSE LET cands == AllCandidates(ms, fz)
         IN  IF cands = <<>> THEN None
             ELSE LET final == Select(ms, sp, cands)
                  IN  IF final[1] = 0 THEN Raised("StopIteration")
                      ELSE [kind |-> "match",
                            match_name |-> ms[final[1]].product_name,
                            master_id |-> final[1],
                            score |-> final[2],
                            confidence |-> Confidence(final[2])]

\* Lines 93-194.
fuzzy_match(raw, ms, al, sp, fz) ==
    LET alias == FirstAlias(raw, al)
    IN  IF alias # 0 THEN AliasResult(ms, al[alias])
        ELSE FuzzyPart(ms, sp, fz)

(***************************************************************************)
(* Inputs of fuzzy_match                                                   *)
(***************************************************************************)
MaxMasters == 2
MaxAliases == 2
MasterKinds ==
    { [product_name |-> <<"A", "1">>, simplified_name |-> <<"A">>, standard_cost |-> IntV(10)],
      [product_name |-> <<"A", "2">>, simplified_name |-> <<"A">>, standard_cost |-> IntV(35)],
      [product_name |-> <<"b", "1">>, simplified_name |-> <<>>, standard_cost |-> IntV(10)] }
RawNames == {<<"a">>, <<"A", " ">>, <<"c">>}
AliasNames == {<<"a">>}
MatchPrices == {None, IntV(0), IntV(-5), IntV(11), IntV(33), Inf}
Perfect == <<100, 100, 100>>
Profiles ==
    { <<80, 80, 80>>, <<80, 86, 93>>, <<93, 96, 91>>, Perfect }

SeqsUpTo(S, n) == UNION {[1..k -> S] : k \in 0..n}
SearchTexts(ms) == {SearchText(ms[i]) : i \in 1..Len(ms)}

InitMatch ==
    /\ pc = "start"
    /\ NoPackCall
    /\ NoEucCall
    /\ masters \in SeqsUpTo(MasterKinds, MaxMasters)
    /\ aliases \in SeqsUpTo([alias_name : AliasNames,
                             master_product_id : 1..Len(masters)], MaxAliases)
    /\ raw_name \in RawNames
    /\ supplier_price \in MatchPrices
    /\ IF FirstAlias(raw_name, aliases) # 0 \/ Len(masters) = 0
       THEN fuzz = NoResult
       ELSE /\ fuzz \in [SearchTexts(masters) -> Profiles]
            /\ \A k \in SearchTexts(masters) :
                   k = Normalize(raw_name) => fuzz[k] = Perfect
    /\ all_candidates = NoResult
    /\ match_result = NoResult
    /\ NoSteps
    /\ simplified = NoResult
    /\ offers = <<>>
    /\ history = <<>>
    /\ cart = <<>>

FuzzyMatchMemoizing ==
    /\ pc = "start"
    /\ match_result = NoResult
    /\ all_candidates' = (IF FirstAlias(raw_name, aliases) # 0 \/ Len(masters) = 0
                          THEN <<>>
                          ELSE AllCandidates(masters, fuzz))
    /\ match_result' = fuzzy_match(raw_name, masters, aliases, supplier_price, fuzz)
    /\ pc' = "done"
    /\ aliases' = (IF match_result'.kind = "match"
                    THEN Append(aliases, [alias_name |-> raw_name,
                                          master_product_id |-> match_result'.master_id])
                    ELSE aliases)
    /\ UNCHANGED <<packVars, eucVars, masters, raw_name, supplier_price, fuzz,
                   concVars, simplified, appVars>>

FuzzyMatch ==
    /\ pc = "start"
    /\ match_result = NoResult
    /\ all_candidates' = (IF FirstAlias(raw_name, aliases) # 0 \/ Len(masters) = 0
                          THEN <<>>
                          ELSE AllCandidates(masters, fuzz))
    /\ match_result' = fuzzy_match(raw_name, masters, aliases, supplier_price, fuzz)
    /\ pc' = "done"
    /\ UNCHANGED <<packVars, eucVars, dbVars, raw_name, supplier_price, fuzz,
                   concVars, simplified, appVars>>

NextMatch == FuzzyMatch

SpecMatch == InitMatch /\ [][NextMatch]_vars

(***************************************************************************)
(* Inputs of simplify_product_name: product names made of up to MaxWords   *)
(* words separated by one space, and the example of the docstring.         *)
(***************************************************************************)
MaxWords == 3
NameWords ==
    { <<"A", "B">>,
      <<"5", "0", "0", "M", "G">>,
      <<"T", "A", "B", "L", "E", "T", "S">>,
      <<"B", "P">>,
      <<",">>,
      <<"2", "4", "'", "S">>,
      <<"S", "Y", "R", "U", "P">>,
      <<"W", "/", "V">> }
RECURSIVE JoinWords(_)
JoinWords(ws) ==
    IF ws = <<>> THEN <<>>
    ELSE IF Len(ws) = 1 THEN ws[1]
    ELSE ws[1] \o <<" ">> \o JoinWords(Tail(ws))
\* "PARACETAMOL 500MG TABLETS BP, 24's Blister Pack" (docstring, line 14)
DocstringName ==
    <<"P", "A", "R", "A", "C", "E", "T", "A", "M", "O", "L", " ">>
        \o <<"5", "0", "0", "M", "G", " ">>
        \o <<"T", "A", "B", "L", "E", "T", "S", " ">>
        \o <<"B", "P", ",", " ">>
        \o <<"2", "4", "'", "s", " ">>
        \o <<"B", "l", "i", "s", "t", "e", "r", " ">>
        \o <<"P", "a", "c", "k">>
SimplifyInputs ==
    {DocstringName} \cup {JoinWords(ws) : ws \in SeqsUpTo(NameWords, MaxWords)}

InitSimplify ==
    /\ pc = "start"
    /\ NoPackCall
    /\ NoEucCall
    /\ NoDb
    /\ raw_name \in SimplifyInputs
    /\ simplified = NoResult
    /\ supplier_price = NoResult
    /\ fuzz = NoResult
    /\ all_candidates = NoResult
    /\ match_result = NoResult
    /\ NoSteps

SimplifyProductName ==
    /\ pc = "start"
    /\ simplified = NoResult
    /\ simplified' = StrV(simplify_product_name(raw_name))
    /\ pc' = "done"
    /\ UNCHANGED <<packVars, eucVars, dbVars, raw_name, supplier_price, fuzz,
                   all_candidates, match_result, concVars, appVars>>

NextSimplify == SimplifyProductName

SpecSimplify == InitSimplify /\ [][NextSimplify]_vars

(***************************************************************************)
(* The application (app.py): the master list upload, the supplier list     *)
(* upload with archiving, and the manual link of the Matching Workbench.   *)
(* A table is the sequence of its rows in id order; a master product's and *)
(* an alias's id is its position (no code deletes such rows).              *)
(***************************************************************************)
MaxRows == 1       \* rows of an uploaded file
MaxHistory == 1    \* rows of price_history

\* Master list upload, lines 779-842.  cols: the file's column names, in
\* lower case as lines 808-811 compare them.
MasterCols == { <<"c", "o", "d", "e">>, <<"n", "a", "m", "e">> }
PagePattern == <<"p", "a", "g", "e", "\\s+", "\\d+">>
MinistryOfHealth == <<"m", "i", "n", "i", "s", "t", "r", "y", " ", "o", "f", " ", "h", "e", "a", "l", "t", "h">>
Contains(s, w) == \E i \in 1..Len(s) : StartsAt(s, i, w)
Searches(s, pat) == \E i \in 1..Len(s) : MatchFrom(s, i, pat, 1) > 0
IsHeader(row) ==
    \/ Lower(row.product_name) \in MasterCols
    \/ Lower(row.item_code) \in MasterCols
IsPageLine(p_name) ==
    \/ Searches(Lower(p_name), PagePattern)
    \/ Contains(Lower(p_name), MinistryOfHealth)
IsShortNumber(p_name) ==
    /\ AllDigits(SelectSeq(p_name, LAMBDA c : c # "."))
    /\ Len(p_name) < 5
SkipsRow(row) ==
    \/ IsHeader(row)
    \/ IsPageLine(row.product_name)
    \/ IsShortNumber(row.product_name)
    \/ Len(row.product_name) < 2
HasItemCode(ms, item_code) == \E i \in 1..Len(ms) : ms[i].item_code = item_code
NewMasterProduct(row) ==
    [item_code |-> row.item_code,
     product_name |-> row.product_name,
     simplified_name |-> simplify_product_name(row.product_name),
     pack_size |-> row.pack_size,
     standard_cost |-> IntV(row.standard_cost)]
\* The loop with an update of the entry that has the row's item code.
RECURSIVE AddMasterRowsUpdating(_, _)
AddMasterRowsUpdating(ms, file) ==
    IF file = <<>> THEN ms
    ELSE LET row == Head(file)
         IN  AddMasterRowsUpdating(
                 IF SkipsRow(row) THEN ms
                 ELSE IF HasItemCode(ms, row.item_code)
                 THEN [i \in 1..Len(ms) |->
                          IF ms[i].item_code = row.item_code
                          THEN NewMasterProduct(row) ELSE ms[i]]
                 ELSE Append(ms, NewMasterProduct(row)),
                 Tail(file))
RECURSIVE AddMasterRows(_, _)
AddMasterRows(ms, file) ==
    IF file = <<>> THEN ms
    ELSE LET row == Head(file)
             added == IF SkipsRow(row) \/ HasItemCode(ms, row.item_code)
                      THEN ms
                      ELSE Append(ms, NewMasterProduct(row))
         IN  AddMasterRows(added, Tail(file))

\* Rows of master files: a name that simplifies to nothing ("BP"), a name
\* with a dosage form, and lines the loop skips (the header line, a page
\* line); the cost cell is taken as the number lines 790-801 parse, 10 for
\* item code 1 and 35 for the others; no pack-size column is chosen, so
\* that pack_s is "1" (line 804).
MasterNames ==
    { <<"B", "P">>, <<"A", "B", " ", "T", "A", "B", "L", "E", "T", "S">>,
      <<"N", "a", "m", "e">>, <<"P", "a", "g", "e", " ", "2">> }
ItemCodes == { <<"1">>, <<"2">> }
MasterCosts == {10, 35}
MasterRows ==
    {row \in [item_code : ItemCodes, product_name : MasterNames,
               standard_cost : MasterCosts, pack_size : {<<"1">>}] :
         row.standard_cost = 10 <=> row.item_code = <<"1">>}
Files(Rows) == SeqsUpTo(Rows, MaxRows) \ {<<>>}

\* Supplier list upload, lines 897-985.
\* The filter with the supplier's name alone.
SameSupplier(o, supplier_name, list_tag) == o.supplier_name = supplier_name
SameList(o, supplier_name, list_tag) ==
    o.supplier_name = supplier_name /\ o.list_tag = list_tag
HistoryOf(old) ==
    [supplier_name |-> old.supplier_name,
     list_tag |-> old.list_tag,
     raw_product_name |-> old.raw_product_name,
     price |-> old.price,
     supplier_pack_size |-> old.supplier_pack_size,
     normalized_cost |-> old.normalized_cost,
     bonus_string |-> old.bonus_string]
\* The id SQLite gives a new row of an INTEGER PRIMARY KEY table.
NextId(rows) ==
    IF rows = <<>> THEN 1
    ELSE 1 + (CHOOSE m \in {rows[i].id : i \in 1..Len(rows)} :
                  \A i \in 1..Len(rows) : rows[i].id <= m)
MatchOfRow(row, ms, al, fz) == fuzzy_match(row.item, ms, al, IntV(row.price), fz)
NewSupplierOffer(id, supplier_name, list_tag, row, ms, al, fz) ==
    LET raw == row.item
        pack_val == parse_pack_size(row.pack)
        bonus == row.bonus
        result == MatchOfRow(row, ms, al, fz)
        matched_id == IF result.kind = "match" THEN IntV(result.master_id) ELSE None
        norm_cost == calculate_euc(Rat(row.price, 1), pack_val, bonus)[3]
    IN  [id |-> id,
         supplier_name |-> supplier_name,
         list_tag |-> list_tag,
         raw_product_name |-> raw,
         price |-> row.price,
         supplier_pack_size |-> pack_val,
         normalized_cost |-> norm_cost,
         bonus_string |-> bonus,
         matched_master_id |-> matched_id]
RECURSIVE AddOfferRows(_, _, _, _, _, _, _)
AddOfferRows(os, supplier_name, list_tag, file, ms, al, fzs) ==
    IF file = <<>> THEN os
    ELSE AddOfferRows(Append(os, NewSupplierOffer(NextId(os), supplier_name, list_tag,
                                                  Head(file), ms, al, Head(fzs))),
                      supplier_name, list_tag, Tail(file), ms, al, Tail(fzs))

\* Rows of supplier files and the scores the library gives for a row.
SupplierNames == {"S"}
ListTags == {"General", "Promo"}
OfferNames == { <<"B", "P">>, <<"x">> }
OfferPrices == {11}
SupplierRows ==
    [item : OfferNames, price : OfferPrices, pack : {StrV(<<"2", "x", "5">>)}, bonus : {None}]
RowProfiles == { <<80, 80, 80>>, <<93, 96, 91>> }
\* (When an alias answers, the library is not called: one table stands for
\* the scores nobody reads.)
ScoresFor(raw, ms, al) ==
    IF FirstAlias(raw, al) # 0 THEN {[k \in SearchTexts(ms) |-> Perfect]}
    ELSE {fz \in [SearchTexts(ms) -> RowProfiles \cup {Perfect}] :
              \A k \in SearchTexts(ms) : (k = Normalize(raw)) <=> (fz[k] = Perfect)}

InitApp ==
    /\ pc = "app"
    /\ NoPackCall
    /\ NoEucCall
    /\ NoDb
    /\ NoMatchCall

ProcessMasterList(files) ==
    /\ pc = "app"
    /\ \E file \in files :
           masters' = AddMasterRows(masters, file)
    /\ UNCHANGED <<pc, packVars, eucVars, aliases, matchVars, concVars, simplified,
                   appVars>>
UploadMaster == ProcessMasterList(Files(MasterRows))

\* Process & Archive Old Data, lines 897-985, for the files given and while
\* price_history has room.
ProcessAndArchive(files, max_history) ==
    /\ pc = "app"
    /\ \E supplier_name \in SupplierNames, list_tag \in ListTags,
          file \in files :
           LET Old(o) == SameList(o, supplier_name, list_tag)
               Kept(o) == ~Old(o)
               old_offers == SelectSeq(offers, Old)
           IN  /\ Len(history) + Len(old_offers) <= max_history
               /\ \E fzs \in [1..Len(file) ->
                                 UNION {ScoresFor(file[i].item, masters, aliases) :
                                            i \in 1..Len(file)}] :
                      /\ \A i \in 1..Len(file) :
                             /\ fzs[i] \in ScoresFor(file[i].item, masters, aliases)
                             /\ MatchOfRow(file[i], masters, aliases, fzs[i]).kind
                                    # "raised"
                      /\ history' = history \o
                             [i \in 1..Len(old_offers) |-> HistoryOf(old_offers[i])]
                      /\ offers' = AddOfferRows(SelectSeq(offers, Kept), supplier_name,
                                                list_tag, file, masters, aliases, fzs)
    /\ UNCHANGED <<pc, packVars, eucVars, dbVars, matchVars, concVars, simplified,
                   cart>>

UploadSupplierForgetting ==
    /\ pc = "app"
    /\ \E supplier_name \in SupplierNames, list_tag \in ListTags,
          file \in Files(SupplierRows) :
           LET Old(o) == SameList(o, supplier_name, list_tag)
               Kept(o) == ~Old(o)
               old_offers == SelectSeq(offers, Old)
           IN  /\ Len(history) + Len(old_offers) <= MaxHistory
               /\ \E fzs \in [1..Len(file) ->
                                 UNION {ScoresFor(file[i].item, masters, aliases) :
                                            i \in 1..Len(file)}] :
                      /\ \A i \in 1..Len(file) :
                             /\ fzs[i] \in ScoresFor(file[i].item, masters, aliases)
                             /\ MatchOfRow(file[i], masters, aliases, fzs[i]).kind
                                    # "raised"
                      /\ history' = history \o
                             [i \in 1..Len(old_offers) |-> HistoryOf(old_offers[i])]
                      /\ offers' = AddOfferRows(SelectSeq(offers, Kept), supplier_name,
                                                list_tag, file, masters, aliases, fzs)
    /\ aliases' = SelectSeq(aliases, LAMBDA a :
                         \A i \in 1..Len(offers') :
                             offers'[i].raw_product_name # a.alias_name)
    /\ UNCHANGED <<pc, packVars, eucVars, masters, matchVars, concVars, simplified,
                   cart>>

UploadSupplier == ProcessAndArchive(Files(SupplierRows), MaxHistory)

\* Link Products with a target_id that is typed in as offer_id is, not
\* chosen among the products found.
LinkProductsAnyTarget ==
    /\ pc = "app"
    /\ Len(aliases) < MaxAliases
    /\ \E i \in 1..Len(offers), target_id \in 1..MaxMasters :
           LET o == offers[i]
           IN  /\ offers' = [offers EXCEPT ![i].matched_master_id = IntV(target_id)]
               /\ aliases' = Append(aliases, [alias_name |-> o.raw_product_name,
                                              master_product_id |-> target_id])
    /\ UNCHANGED <<pc, packVars, eucVars, masters, matchVars, concVars, simplified,
                   history, cart>>

\* Link Products, lines 1067-1078: offer_id is typed in, target_id comes
\* from the search of the master products.
LinkProducts ==
    /\ pc = "app"
    /\ Len(aliases) < MaxAliases
    /\ \E i \in 1..Len(offers), target_id \in 1..Len(masters) :
           LET o == offers[i]
           IN  /\ offers' = [offers EXCEPT ![i].matched_master_id = IntV(target_id)]
               /\ aliases' = Append(aliases, [alias_name |-> o.raw_product_name,
                                              master_product_id |-> target_id])
    /\ UNCHANGED <<pc, packVars, eucVars, masters, matchVars, concVars, simplified,
                   history, cart>>

NextApp == UploadMaster \/ UploadSupplier \/ LinkProducts

SpecApp == InitApp /\ [][NextApp]_vars

(***************************************************************************)
(* fuzzy_match step by step, beside another session that links the same    *)
(* text: the alias query of line 94 and the rest of the call (lines        *)
(* 95-194, which read master_products only) are two steps, and the commit  *)
(* of Link Products (app.py, line 1074) may fall before, between or after  *)
(* them.                                                                   *)
(***************************************************************************)
InitSteps ==
    /\ pc = "start"
    /\ NoPackCall
    /\ NoEucCall
    /\ masters \in SeqsUpTo(MasterKinds, MaxMasters)
    /\ aliases \in SeqsUpTo([alias_name : AliasNames,
                             master_product_id : 1..Len(masters)], MaxAliases)
    /\ raw_name \in RawNames
    /\ supplier_price \in MatchPrices
    /\ IF FirstAlias(raw_name, aliases) # 0 \/ Len(masters) = 0
       THEN fuzz = NoResult
       ELSE /\ fuzz \in [SearchTexts(masters) -> Profiles]
            /\ \A k \in SearchTexts(masters) :
                   k = Normalize(raw_name) => fuzz[k] = Perfect
    /\ all_candidates = NoResult
    /\ match_result = NoResult
    /\ alias_local = NoResult
    /\ aliases_at_call = aliases
    /\ simplified = NoResult
    /\ offers = <<>>
    /\ history = <<>>
    /\ cart = <<>>

\* Line 94.
QueryAlias ==
    /\ pc = "start"
    /\ alias_local' = (IF FirstAlias(raw_name, aliases) = 0 THEN None
                       ELSE aliases[FirstAlias(raw_name, aliases)])
    /\ pc' = "alias_read"
    /\ UNCHANGED <<packVars, eucVars, dbVars, matchVars, aliases_at_call, simplified,
                   appVars>>

\* Lines 95-101.
ReturnAlias ==
    /\ pc = "alias_read"
    /\ alias_local # None
    /\ match_result' = AliasResult(masters, alias_local)
    /\ all_candidates' = <<>>
    /\ pc' = "done"
    /\ UNCHANGED <<packVars, eucVars, dbVars, raw_name, supplier_price, fuzz,
                   concVars, simplified, appVars>>

\* Lines 103-194.
ReturnFuzzy ==
    /\ pc = "alias_read"
    /\ alias_local = None
    /\ match_result' = FuzzyPart(masters, supplier_price, fuzz)
    /\ all_candidates' = (IF Len(masters) = 0 THEN <<>>
                          ELSE AllCandidates(masters, fuzz))
    /\ pc' = "done"
    /\ UNCHANGED <<packVars, eucVars, dbVars, raw_name, supplier_price, fuzz,
                   concVars, simplified, appVars>>

\* The other session's Link Products for the text of the call.
AppendAlias ==
    /\ pc # "done"
    /\ Len(aliases) < MaxAliases
    /\ \E target_id \in 1..Len(masters) :
           aliases' = Append(aliases, [alias_name |-> raw_name,
                                       master_product_id |-> target_id])
    /\ UNCHANGED <<pc, packVars, eucVars, masters, matchVars, concVars, simplified,
                   appVars>>

NextSteps == QueryAlias \/ ReturnAlias \/ ReturnFuzzy \/ AppendAlias

SpecSteps == InitSteps /\ [][NextSteps]_vars

(***************************************************************************)
(* fuzzy_match on catalogs with more entries than process.extract returns  *)
(* (limit=10, line 138): up to MaxCatalog - 1 entries of one name followed *)
(* by at most one entry of any kind, and no alias.                         *)
(***************************************************************************)
MaxCatalog == 11
Repeated(m, n) == [i \in 1..n |-> m]
LargeCatalogs ==
    {Repeated(m, n) \o last :
         m \in {k \in MasterKinds : k.simplified_name = <<"A">>},
         n \in 0..(MaxCatalog - 1), last \in SeqsUpTo(MasterKinds, 1)}
CatalogProfiles == Profiles \cup { <<80, 97, 80>>, <<95, 96, 91>>, <<86, 86, 89>> }

InitCatalog ==
    /\ pc = "start"
    /\ NoPackCall
    /\ NoEucCall
    /\ masters \in LargeCatalogs
    /\ aliases = <<>>
    /\ raw_name \in RawNames
    /\ supplier_price \in MatchPrices
    /\ IF Len(masters) = 0
       THEN fuzz = NoResult
       ELSE /\ fuzz \in [SearchTexts(masters) -> CatalogProfiles]
            /\ \A k \in SearchTexts(masters) :
                   k = Normalize(raw_name) => fuzz[k] = Perfect
    /\ all_candidates = NoResult
    /\ match_result = NoResult
    /\ NoSteps
    /\ simplified = NoResult
    /\ offers = <<>>
    /\ history = <<>>
    /\ cart = <<>>

SpecCatalog == InitCatalog /\ [][NextMatch]_vars

(***************************************************************************)
(* Best Buy Finder (app.py): adding offers to the cart.  The database is   *)
(* as one supplier upload leaves it, on an empty catalog or on a catalog   *)
(* of one product that the rows match; a cart item of a matched offer      *)
(* comes from the results table, a cart item of an unmatched offer from    *)
(* the "Unmatched Products" list.                                          *)
(***************************************************************************)
MaxCart == 2       \* items in the cart
MaxQty == 2        \* quantity typed in
CartRows ==
    [item : {<<"a">>}, price : {7, 11},
     pack : {None, StrV(<<"0">>), StrV(<<"2", "x", "5">>)},
     bonus : {None, StrV(<<"1", "+", "1">>)}]
CartCatalogs ==
    {<<>>, <<NewMasterProduct([item_code |-> <<"1">>, product_name |-> <<"A">>,
                               pack_size |-> <<"1">>,
                               standard_cost |-> 10])>>}

\* Lines 1208-1215 and 1279-1286: the item of a row of the results table,
\* whose "Norm. Unit Cost" is r.normalized_cost (line 1166).
DealItem(r, qty) ==
    [RefID |-> r.id,
     Supplier |-> r.supplier_name,
     Product |-> r.raw_product_name,
     Quantity |-> qty,
     Unit_Cost |-> r.normalized_cost,
     Total |-> qty * r.price]
\* Lines 1322-1330.
UnmatchedItem(u, qty) ==
    LET size == IF u.supplier_pack_size = 0 THEN 1 ELSE u.supplier_pack_size
        norm_cost == IF size > 0 THEN RatDivInt(Rat(u.price, 1), size)
                     ELSE Rat(u.price, 1)
    IN  [Supplier |-> u.supplier_name,
         Product |-> u.raw_product_name,
         Quantity |-> qty,
         Unit_Cost |-> Round4(norm_cost),
         Total |-> qty * u.price]

InitCart ==
    /\ pc = "app"
    /\ NoPackCall
    /\ NoEucCall
    /\ NoMatchCall
    /\ masters \in CartCatalogs
    /\ aliases = <<>>
    /\ \E file \in Files(CartRows) :
           \E fzs \in [1..Len(file) -> ScoresFor(<<"a">>, masters, aliases)] :
               offers = AddOfferRows(<<>>, "S", "General", file, masters, aliases, fzs)
    /\ history = <<>>
    /\ cart = <<>>

\* Lines 1146-1174: the offers matched to the products found, sorted by
\* "Norm. Unit Cost"; rows of equal cost keep their order.
MatchedOffers == SelectSeq(offers, LAMBDA o : o.matched_master_id # None)
FirstCheapest(rows) ==
    CHOOSE i \in 1..Len(rows) :
        /\ \A j \in 1..Len(rows) : RatLe(rows[i].normalized_cost, rows[j].normalized_cost)
        /\ \A j \in 1..(i - 1) : RatLt(rows[j].normalized_cost, rows[i].normalized_cost)
RECURSIVE SortByCost(_)
SortByCost(rows) ==
    IF rows = <<>> THEN <<>>
    ELSE LET i == FirstCheapest(rows)
         IN  <<rows[i]>> \o SortByCost(RemoveAt(rows, i))
\* Lines 1275-1287: one item for every row whose quantity is positive.
RECURSIVE SelectedItems(_, _)
SelectedItems(rows, q) ==
    IF rows = <<>> THEN <<>>
    ELSE (IF q[Head(rows).id] > 0 THEN <<DealItem(Head(rows), q[Head(rows).id])>>
          ELSE <<>>) \o SelectedItems(Tail(rows), q)

\* "Add to Cart" of a top deal, lines 1203-1216.
AddDealToCart ==
    /\ pc = "app"
    /\ Len(cart) < MaxCart
    /\ \E i \in 1..Len(offers), qty \in 1..MaxQty :
           /\ offers[i].matched_master_id # None
           /\ cart' = Append(cart, DealItem(offers[i], qty))
    /\ UNCHANGED <<pc, packVars, eucVars, dbVars, matchVars, concVars, simplified,
                   offers, history>>

\* "Add Selected to Cart", lines 1273-1290.
AddSelectedToCart ==
    /\ pc = "app"
    /\ MatchedOffers # <<>>
    /\ \E q \in [{MatchedOffers[i].id : i \in 1..Len(MatchedOffers)} -> 0..MaxQty] :
           LET added == SelectedItems(SortByCost(MatchedOffers), q)
           IN  /\ Len(cart) + Len(added) <= MaxCart
               /\ cart' = cart \o added
    /\ UNCHANGED <<pc, packVars, eucVars, dbVars, matchVars, concVars, simplified,
                   offers, history>>

\* The cart button of an unmatched offer, lines 1317-1332.
AddUnmatchedToCart ==
    /\ pc = "app"
    /\ Len(cart) < MaxCart
    /\ \E i \in 1..Len(offers), qty \in 1..MaxQty :
           /\ offers[i].matched_master_id = None
           /\ cart' = Append(cart, UnmatchedItem(offers[i], qty))
    /\ UNCHANGED <<pc, packVars, eucVars, dbVars, matchVars, concVars, simplified,
                   offers, history>>

NextCart == AddDealToCart \/ AddSelectedToCart \/ AddUnmatchedToCart

SpecCart == InitCart /\ [][NextCart]_vars

(***************************************************************************)
(* Master list uploads alone (app.py, lines 779-842), with files of        *)
(* several rows whose item codes may repeat, in the file and from one file *)
(* to the next, under other names, costs and pack sizes.                   *)
(***************************************************************************)
MaxListRows == 2   \* rows of a master list
ListNames == { <<"B", "P">>, <<"A", "B", " ", "T", "A", "B", "L", "E", "T", "S">> }
ListPacks == { <<"1">>, <<"2", "4", "s">> }
ListRows ==
    [item_code : ItemCodes, product_name : ListNames,
     standard_cost : MasterCosts, pack_size : ListPacks]
MasterLists == SeqsUpTo(ListRows, MaxListRows) \ {<<>>}

UploadMasterList == ProcessMasterList(MasterLists)

NextMaster == UploadMasterList

SpecMaster == InitApp /\ [][NextMaster]_vars

(***************************************************************************)
(* Supplier list uploads alone (app.py, lines 897-985), on an empty        *)
(* catalog, with sheets of several rows and room in price_history for      *)
(* several archived lists.                                                 *)
(***************************************************************************)
MaxSheetRows == 2  \* rows of a supplier sheet
MaxArchive == 2    \* rows of price_history
Sheets == SeqsUpTo(SupplierRows, MaxSheetRows) \ {<<>>}

UploadSheet == ProcessAndArchive(Sheets, MaxArchive)

NextArchive == UploadSheet

SpecArchive == InitApp /\ [][NextArchive]_vars

(***************************************************************************)
(* Claims on fuzzy_match                                                   *)
(***************************************************************************)
MatchDone == pc = "done" /\ match_result.kind # "unset"
NoAliasFor(raw) == \A i \in 1..Len(aliases) : aliases[i].alias_name # raw
IsMatch == match_result.kind = "match"

\* C1: whenever the alias store holds an alias whose text equals raw_name,
\* fuzzy_match returns that alias's master product with score 100 and the
\* alias-sourced High confidence, whatever the catalog and the price.
C1_AliasPrecedence ==
    MatchDone =>
        \A i \in 1..Len(aliases) :
            aliases[i].alias_name = raw_name =>
                /\ IsMatch
                /\ match_result.master_id = aliases[i].master_product_id
                /\ match_result.match_name =
                       masters[aliases[i].master_product_id].product_name
                /\ match_result.score = 100
                /\ match_result.confidence = "High (Alias)"

\* The candidates within MATCH_SCORE_TOLERANCE points of the top score, in
\* the order of the score-descending candidate list.
TopScore(cands) ==
    CHOOSE s \in {cands[i][2] : i \in 1..Len(cands)} :
        \A i \in 1..Len(cands) : cands[i][2] <= s
WithinTolerance(cands) ==
    SelectSeq(cands, LAMBDA c : c[2] >= TopScore(cands) - MATCH_SCORE_TOLERANCE)
\* An infinite price is equally far from every cost.
CostDistance(id) ==
    IF supplier_price.kind = "inf" THEN 0
    ELSE Abs(supplier_price.n - masters[id].standard_cost.n)
PositivePrice ==
    supplier_price.kind = "inf" \/ (supplier_price.kind = "int" /\ supplier_price.n > 0)
SeveralClose ==
    /\ MatchDone
    /\ NoAliasFor(raw_name)
    /\ all_candidates # <<>>
    /\ Len(WithinTolerance(all_candidates)) > 1
TwoSameNameEntries ==
    /\ Len(masters) = 2
    /\ SearchText(masters[1]) = SearchText(masters[2])
    /\ {masters[1].standard_cost.n, masters[2].standard_cost.n} = {10, 35}

\* C2: with no alias, several candidates within the tolerance of the top
\* score and a positive price, the result is the close candidate whose
\* standard_cost is nearest to the price, the earlier one in the candidate
\* list on equal distances; with two entries of the same canonical name and
\* costs 10 and 35, price 11 selects the 10 entry and price 33 the 35 entry.
C2_NearestCost ==
    SeveralClose /\ PositivePrice =>
        LET close == WithinTolerance(all_candidates)
        IN  /\ IsMatch
            /\ \E i \in 1..Len(close) :
                   /\ match_result.master_id = close[i][1]
                   /\ \A j \in 1..Len(close) :
                          CostDistance(close[j][1]) >= CostDistance(close[i][1])
                   /\ \A j \in 1..(i - 1) :
                          CostDistance(close[j][1]) > CostDistance(close[i][1])
            /\ TwoSameNameEntries /\ supplier_price = IntV(11) =>
                   masters[match_result.master_id].standard_cost.n = 10
            /\ TwoSameNameEntries /\ supplier_price = IntV(33) =>
                   masters[match_result.master_id].standard_cost.n = 35
C2_Witness ==
    /\ SeveralClose
    /\ IsMatch
    /\ TwoSameNameEntries
    /\ supplier_price = IntV(33)
    /\ all_candidates[1][1] = 1
    /\ match_result.master_id = 2

\* The highest score any catalog entry reaches with any scorer, among the
\* scores that reach the scorer's cutoff.
Reaching ==
    {<<i, fuzz[SearchText(masters[i])][1]>> : i \in
         {i \in 1..Len(masters) :
              fuzz[SearchText(masters[i])][1] >= MATCH_CUTOFF_TOKEN_SORT}}
    \cup {<<i, fuzz[SearchText(masters[i])][2]>> : i \in
         {i \in 1..Len(masters) :
              fuzz[SearchText(masters[i])][2] >= MATCH_CUTOFF_TOKEN_SET}}
    \cup {<<i, fuzz[SearchText(masters[i])][3]>> : i \in
         {i \in 1..Len(masters) :
              fuzz[SearchText(masters[i])][3] >= MATCH_CUTOFF_PARTIAL}}
NoUsablePrice ==
    supplier_price.kind = "none" \/ (supplier_price.kind = "int" /\ supplier_price.n <= 0)

C4_NoMatchIsNone ==
    MatchDone /\ NoAliasFor(raw_name) =>
        /\ Len(masters) = 0 => match_result = None
        /\ Len(masters) > 0 /\ Reaching = {} => match_result = None
C4_Witness ==
    /\ MatchDone
    /\ NoAliasFor(raw_name)
    /\ Len(aliases) > 0
    /\ Len(masters) > 0
    /\ Reaching = {}
    /\ match_result = None

\* C11: for every fuzzy (non-alias) result the confidence is High exactly
\* when the selected candidate's score is >= CONFIDENCE_HIGH_SCORE, Medium
\* exactly when it is >= CONFIDENCE_MEDIUM_SCORE and below the High score,
\* Low otherwise; the score is the selected candidate's, the best one the
\* selected entry has among the close candidates, not the top score.
FuzzyResult == MatchDone /\ NoAliasFor(raw_name) /\ IsMatch
ScoresOfSelected ==
    {r[2] : r \in {q \in Reaching : q[1] = match_result.master_id}}
C11_ConfidenceOfSelected ==
    FuzzyResult =>
        /\ match_result.score \in ScoresOfSelected
        /\ \A s \in ScoresOfSelected : s <= match_result.score
        /\ match_result.confidence = "High"
               <=> match_result.score >= CONFIDENCE_HIGH_SCORE
        /\ match_result.confidence = "Medium"
               <=> /\ match_result.score >= CONFIDENCE_MEDIUM_SCORE
                   /\ match_result.score < CONFIDENCE_HIGH_SCORE
        /\ match_result.confidence = "Low"
               <=> match_result.score < CONFIDENCE_MEDIUM_SCORE
C11_Witness ==
    /\ FuzzyResult
    /\ PositivePrice
    /\ all_candidates[1][2] >= CONFIDENCE_HIGH_SCORE
    /\ match_result.score < all_candidates[1][2]
    /\ match_result.confidence = "Medium"

(***************************************************************************)
(* More claims on parse_pack_size (SpecPack)                               *)
(***************************************************************************)
\* s is <a> x <b> or <a> * <b>: digits, optional whitespace, one of x, X
\* and *, optional whitespace, digits; i and j are the ends of a and the
\* start of b.
TimesFormAt(s, i, j) ==
    /\ 1 <= i /\ i + 1 < j /\ j <= Len(s)
    /\ AllDigits(SubSeq(s, 1, i))
    /\ AllDigits(SubSeq(s, j, Len(s)))
    /\ \E o \in (i + 1)..(j - 1) :
           /\ s[o] \in {"x", "X", "*"}
           /\ AllWhitespace(SubSeq(s, i + 1, o - 1))
           /\ AllWhitespace(SubSeq(s, o + 1, j - 1))
TimesForm(s) == \E i, j \in 1..Len(s) : TimesFormAt(s, i, j)
TimesProduct(s) ==
    LET ij == CHOOSE ij \in (1..Len(s)) \X (1..Len(s)) : TimesFormAt(s, ij[1], ij[2])
    IN  ToInt(SubSeq(s, 1, ij[1])) * ToInt(SubSeq(s, ij[2], Len(s)))
PackDone == pc = "done" /\ pack_result.kind = "int"

\* C12: on a text <a> x <b> or <a> * <b> (x in either case, optional
\* whitespace around the operator) parse_pack_size returns a * b; "10x10"
\* gives 100, "5*20" 100 and "3 x 10" 30.
C12_TimesFormProduct ==
    PackDone =>
        /\ (pack_input.kind = "str" /\ TimesForm(pack_input.s)) =>
               pack_result.n = TimesProduct(pack_input.s)
        /\ pack_input = StrV(<<"1", "0", "x", "1", "0">>) => pack_result.n = 100
        /\ pack_input = StrV(<<"5", "*", "2", "0">>) => pack_result.n = 100
        /\ pack_input = StrV(<<"3", " ", "x", " ", "1", "0">>) => pack_result.n = 30
C12_Witness ==
    /\ PackDone
    /\ pack_input = StrV(<<"3", " ", "x", " ", "1", "0">>)
    /\ pack_result.n = 30

(***************************************************************************)
(* More claims on fuzzy_match                                              *)
(***************************************************************************)
\* C15: fuzzy_match never raises: for every raw name, every price (None, 0,
\* negative, positive, arbitrarily large) and every catalog and alias
\* content, a finished call has returned a populated result or None.
C15_NeverRaises == MatchDone => match_result.kind \in {"match", "none"}

\* C18: a call of fuzzy_match leaves the master products and the alias
\* store exactly as they were, whatever it returns; the matcher creates no
\* alias.
C18_ReadOnly ==
    [][pc = "start" /\ pc' = "done" /\ match_result'.kind # "unset" =>
           masters' = masters /\ aliases' = aliases]_vars
C18_Witness ==
    /\ FuzzyResult
    /\ aliases # <<>>
    /\ Len(masters) = MaxMasters

(***************************************************************************)
(* More claims on calculate_euc                                            *)
(***************************************************************************)
\* C20: calculate_euc returns no cost result for a negative price: every
\* returned effective price and normalized cost is non-negative.
C20_NonNegativeCosts ==
    EucDone => RatLe(Zero, euc_result[1]) /\ RatLe(Zero, euc_result[3])

(***************************************************************************)
(* Claims on simplify_product_name (SpecSimplify)                          *)
(***************************************************************************)
SimplifyDone == pc = "done" /\ simplified.kind = "str"
\* The name after the noise removal and the whitespace collapse (lines
\* 20-55), on which the dosage-form truncation of lines 59-62 works.
CleanedName(raw) ==
    Collapse(SubFrom(SubFrom(SubAll(Strip(Upper(raw)), noise_patterns, 1),
                             1, InPercentWV), 1, WV))
Truncated(raw) == MatchCore(CleanedName(raw), FormKeywords)[1]
EndsAtWordEnd(res, name) ==
    /\ Len(res) <= Len(name)
    /\ res = SubSeq(name, 1, Len(res))
    /\ Len(res) < Len(name) => name[Len(res) + 1] = " "

\* C13: the docstring example simplifies to "PARACETAMOL 500MG TABLETS"
\* (everything from the comma on and the BP token dropped); in general a
\* result truncated at a dosage-form keyword ends right after the keyword
\* word as it is written in the name.
C13_TruncationKeepsWord ==
    SimplifyDone =>
        /\ raw_name = DocstringName =>
               simplified.s = <<"P", "A", "R", "A", "C", "E", "T", "A", "M", "O", "L", " ", "5", "0", "0", "M", "G", " ", "T", "A", "B", "L", "E", "T", "S">>
        /\ Truncated(raw_name) =>
               EndsAtWordEnd(simplified.s, CleanedName(raw_name))

(***************************************************************************)
(* Claims on the application (SpecApp)                                     *)
(***************************************************************************)
Range(f) == {f[i] : i \in DOMAIN f}
EmptyCanonical(m) == m.product_name # <<>> /\ m.simplified_name = <<>>

\* C14 as stated: the canonical name stored for a catalog entry with a
\* non-empty display name is non-empty, the original name standing in when
\* the noise removal leaves nothing.
C14_StoredCanonicalNonEmpty ==
    \A i \in 1..Len(masters) :
        LET m == masters[i]
        IN  m.product_name # <<>> =>
                /\ m.simplified_name # <<>>
                /\ simplify_product_name(m.product_name) = <<>> =>
                       m.simplified_name = m.product_name

\* C14, amended: the canonical name stored at creation is the simplified
\* name as it is, empty when the noise removal leaves nothing; the text
\* fuzzy_match searches for the entry is never empty: it is the stored
\* canonical name in upper case, and the original name in upper case when
\* the stored one is empty.
C14_SearchTextNonEmpty ==
    \A i \in 1..Len(masters) :
        LET m == masters[i]
        IN  /\ m.product_name # <<>>
            /\ m.simplified_name = simplify_product_name(m.product_name)
            /\ SearchText(m) # <<>>
            /\ SearchText(m) = (IF m.simplified_name = <<>>
                                THEN Upper(m.product_name)
                                ELSE Upper(m.simplified_name))
C14_Witness ==
    \E i \in 1..Len(masters), j \in 1..Len(offers) :
        /\ EmptyCanonical(masters[i])
        /\ offers[j].matched_master_id = IntV(i)
        /\ NoAliasFor(offers[j].raw_product_name)
        /\ Normalize(offers[j].raw_product_name) = SearchText(masters[i])

LastAlias(raw) ==
    aliases[CHOOSE i \in 1..Len(aliases) :
                /\ aliases[i].alias_name = raw
                /\ \A j \in (i + 1)..Len(aliases) : aliases[j].alias_name # raw]

\* C16: once an offer named R has been linked to master product T, every
\* later supplier import of a row named R is stored with matched_master_id
\* T, T being the target of the latest link of R, whatever was linked
\* before and whatever the scores.
C16_LinkRemembered ==
    [][aliases' = aliases =>
           \A j \in 1..Len(offers') :
               LET o == offers'[j]
               IN  (o \notin Range(offers) /\ ~NoAliasFor(o.raw_product_name)) =>
                       o.matched_master_id =
                           IntV(LastAlias(o.raw_product_name).master_product_id)]_vars

IsPrefix(s, u) == Len(s) <= Len(u) /\ s = SubSeq(u, 1, Len(s))

\* C17: over every application operation no alias is deleted or modified,
\* and a new alias appears only as the effect of a manual link: one alias,
\* named as the linked offer and pointing to the target the offer now has.
C17_AliasesGrowByLinkOnly ==
    [][/\ IsPrefix(aliases, aliases')
       /\ aliases' # aliases =>
              /\ Len(aliases') = Len(aliases) + 1
              /\ masters' = masters /\ history' = history
              /\ \E i \in 1..Len(offers) :
                     LET pa == aliases'[Len(aliases')]
                     IN  /\ pa.alias_name = offers[i].raw_product_name
                         /\ pa.master_product_id \in 1..Len(masters)
                         /\ offers' = [offers EXCEPT ![i].matched_master_id =
                                           IntV(pa.master_product_id)]]_vars
C17_Witness ==
    /\ Len(aliases) = MaxAliases
    /\ history # <<>>
    /\ \E i \in 1..Len(offers) :
           /\ ~NoAliasFor(offers[i].raw_product_name)
           /\ offers[i].list_tag = history[1].list_tag

(***************************************************************************)
(* Claims on fuzzy_match beside a concurrent link (SpecSteps)              *)
(***************************************************************************)
Appended == SubSeq(aliases, Len(aliases_at_call) + 1, Len(aliases))
StepsDone == pc = "done" /\ match_result.kind # "unset"

\* C19: a call of fuzzy_match(R) that runs while an alias for R is appended
\* ends without an error, and returns either what it would return on the
\* alias store as it was before the append or the alias result of an
\* appended alias.
C19_StaleSnapshotTolerated ==
    (StepsDone /\ Appended # <<>>) =>
        /\ match_result.kind \in {"match", "none"}
        /\ \/ match_result =
                  fuzzy_match(raw_name, masters, aliases_at_call, supplier_price, fuzz)
           \/ \E i \in 1..Len(Appended) :
                  match_result = AliasResult(masters, Appended[i])

(***************************************************************************)
(* Claims on fuzzy_match over large catalogs (SpecCatalog)                 *)
(***************************************************************************)
CutoffOf == <<MATCH_CUTOFF_TOKEN_SORT, MATCH_CUTOFF_TOKEN_SET, MATCH_CUTOFF_PARTIAL>>
ScorerIds == <<"token_sort_ratio", "token_set_ratio", "partial_ratio">>
Scored(i, k) == fuzz[SearchText(masters[i])][k]
Qualifying(k) == {i \in 1..Len(masters) : Scored(i, k) >= CutoffOf[k]}
Listed(k) == {c[1] : c \in {d \in Range(all_candidates) : d[3] = ScorerIds[k]}}
Searched == MatchDone /\ Len(masters) > 0 /\ NoAliasFor(raw_name)
TopScoreOfList == all_candidates[1][2]

\* C21 as stated: for each scorer every catalog entry whose score reaches
\* the scorer's cutoff is in the merged candidate list with that score,
\* however many entries qualify, so every entry within the tolerance of the
\* top score is among the close matches.
C21_EveryQualifyingListed ==
    Searched =>
        \A k \in 1..3 : \A i \in Qualifying(k) :
            <<i, Scored(i, k), ScorerIds[k]>> \in Range(all_candidates)

\* C21, amended: for each scorer the merged list holds the qualifying
\* entries up to ten of them, the best-scoring ones: an entry left out
\* scores no higher than any entry kept, and nothing is left out while
\* fewer than ten are kept; every listed candidate is a qualifying entry
\* with its score, and the close matches are the listed candidates within
\* the tolerance of the top score.
C21_TenBestListed ==
    Searched =>
        /\ \A k \in 1..3 :
               /\ Listed(k) \subseteq Qualifying(k)
               /\ Cardinality(Listed(k)) =
                      (IF Cardinality(Qualifying(k)) < ExtractLimit
                       THEN Cardinality(Qualifying(k)) ELSE ExtractLimit)
               /\ \A i \in Qualifying(k) \ Listed(k), j \in Listed(k) :
                      Scored(i, k) <= Scored(j, k)
        /\ \A c \in Range(all_candidates) :
               \E k \in 1..3 : c[3] = ScorerIds[k] /\ c[2] = Scored(c[1], k)
        /\ all_candidates # <<>> =>
               Range(CloseMatches(all_candidates)) =
                   {c \in Range(all_candidates) :
                        c[2] >= TopScoreOfList - MATCH_SCORE_TOLERANCE}
C21_Witness ==
    /\ Searched
    /\ \E k \in 1..3 : Cardinality(Qualifying(k)) > ExtractLimit
    /\ IsMatch

Max3(s) == Max(s[1], Max(s[2], s[3]))
LowestCutoff ==
    CHOOSE c \in Range(CutoffOf) : \A d \in Range(CutoffOf) : c <= d
ScoreBounds ==
    /\ match_result.score \in 0..100
    /\ match_result.score >= LowestCutoff
    /\ match_result.score >= TopScoreOfList - MATCH_SCORE_TOLERANCE
    /\ match_result.confidence # "Low"
ListedScoresOfResult ==
    {c[2] : c \in {d \in Range(all_candidates) : d[1] = match_result.master_id}}

C22_ExactAliasOnly ==
    (MatchDone /\ NoAliasFor(raw_name)) =>
        /\ match_result = FuzzyPart(masters, supplier_price, fuzz)
        /\ match_result.kind \in {"match", "none"}
        /\ IsMatch => match_result.confidence # "High (Alias)"

(***************************************************************************)
(* Claims on the whitespace and the digit rule of parse_pack_size          *)
(* (SpecPack)                                                              *)
(***************************************************************************)
\* C23: a text that is <a> x <b> or <a> * <b> between leading and/or
\* trailing whitespace (" 10x10 ") gives the product a * b, not the first
\* integer.
C23_SurroundingWhitespace ==
    (PackDone /\ pack_input.kind = "str" /\ TimesForm(Strip(pack_input.s))) =>
        pack_result.n = TimesProduct(Strip(pack_input.s))

\* The text holds <int> x <int> or <int> * <int> somewhere.
TimesAnywhere(s) ==
    \E i, j \in 1..Len(s) : i <= j /\ TimesForm(SubSeq(s, i, j))
FirstDigitRun(s) ==
    LET i == CHOOSE k \in 1..Len(s) :
                 s[k] \in Digits /\ \A m \in 1..(k - 1) : s[m] \notin Digits
        j == CHOOSE k \in i..Len(s) :
                 /\ \A m \in i..k : s[m] \in Digits
                 /\ k = Len(s) \/ s[k + 1] \notin Digits
    IN  SubSeq(s, i, j)
HasDigit(s) == \E i \in 1..Len(s) : s[i] \in Digits

C25_CartUsesStoredCost ==
    \A k \in 1..Len(cart) :
        \E i \in 1..Len(offers) :
            /\ cart[k].Supplier = offers[i].supplier_name
            /\ cart[k].Product = offers[i].raw_product_name
            /\ cart[k].Total = cart[k].Quantity * offers[i].price
            /\ cart[k].Unit_Cost = offers[i].normalized_cost
            /\ cart[k].Unit_Cost =
                   calculate_euc(Rat(offers[i].price, 1), offers[i].supplier_pack_size,
                                 offers[i].bonus_string)[3]


(***************************************************************************)
(* Claims on the alias store (SpecApp)                                     *)
(***************************************************************************)
\* C29: the alias store is a function from alias text to catalog entry: at
\* most one row of product_aliases exists for each alias text, so the
\* query of fuzzy_match (line 94) has a unique answer.
C29_AliasStoreIsFunction ==
    \A i, j \in 1..Len(aliases) :
        aliases[i].alias_name = aliases[j].alias_name => i = j


(***************************************************************************)
(* Claims on the references between the tables (SpecApp)                   *)
(***************************************************************************)
MasterIds == 1..Len(masters)

\* C30: in every reachable state every supplier offer's matched_master_id
\* is null or the id of an existing master product, and every alias's
\* master_product_id is the id of an existing master product.
C30_ReferentialIntegrity ==
    /\ \A j \in 1..Len(offers) :
           \/ offers[j].matched_master_id = None
           \/ /\ offers[j].matched_master_id.kind = "int"
              /\ offers[j].matched_master_id.n \in MasterIds
    /\ \A i \in 1..Len(aliases) : aliases[i].master_product_id \in MasterIds
C30_Witness ==
    /\ Len(masters) = MaxMasters
    /\ \E i \in 1..Len(aliases), j, k \in 1..Len(offers) :
           /\ offers[j].matched_master_id = IntV(aliases[i].master_product_id)
           /\ offers[j].raw_product_name = aliases[i].alias_name
           /\ offers[k].matched_master_id = None


(***************************************************************************)
(* Claims on the master list upload (SpecMaster)                           *)
(***************************************************************************)
UniqueItemCodes(ms) ==
    \A i, j \in 1..Len(ms) : ms[i].item_code = ms[j].item_code => i = j

\* C26: over every master list upload the entries that exist stay as they
\* are (product_name, simplified_name, pack size and standard_cost), a row
\* whose item_code exists in the database or earlier in the file adds
\* nothing, and no two master products share an item_code.
C26_CatalogImmutable ==
    [][/\ IsPrefix(masters, masters')
       /\ UniqueItemCodes(masters')
       /\ \A i \in 1..Len(masters') :
              masters'[i].simplified_name =
                  simplify_product_name(masters'[i].product_name)]_vars
C26_Witness ==
    /\ UniqueItemCodes(masters)
    /\ \A code \in ItemCodes : HasItemCode(masters, code)
    /\ masters[1].product_name # masters[2].product_name
    /\ masters[1].standard_cost # masters[2].standard_cost
    /\ masters[1].pack_size # masters[2].pack_size


(***************************************************************************)
(* Claims on the supplier list upload (SpecArchive)                        *)
(***************************************************************************)
Count(rows, r) == Cardinality({i \in 1..Len(rows) : rows[i] = r})
OfPair(rows, sn, lt) ==
    SelectSeq(rows, LAMBDA o : o.supplier_name = sn /\ o.list_tag = lt)
NotOfPair(rows, sn, lt) ==
    SelectSeq(rows, LAMBDA o : ~(o.supplier_name = sn /\ o.list_tag = lt))
Archived(o) ==
    [supplier_name |-> o.supplier_name, list_tag |-> o.list_tag,
     raw_product_name |-> o.raw_product_name, price |-> o.price,
     supplier_pack_size |-> o.supplier_pack_size,
     normalized_cost |-> o.normalized_cost, bonus_string |-> o.bonus_string]
ArchivedOf(rows) == [i \in 1..Len(rows) |-> Archived(rows[i])]

\* C28: a committed supplier upload for (supplier_name, list_tag) leaves
\* for that pair exactly one offer per row of the sheet, in the sheet's
\* order; every offer the pair had before is in price_history once more
\* than before and nothing else is added to it; the offers of every other
\* pair are unchanged.
C28_ReplaceAndArchive ==
    [][\E sn \in SupplierNames, lt \in ListTags, file \in Sheets :
           LET old == OfPair(offers, sn, lt)
               new == OfPair(offers', sn, lt)
           IN  /\ NotOfPair(offers', sn, lt) = NotOfPair(offers, sn, lt)
               /\ Len(new) = Len(file)
               /\ \A k \in 1..Len(file) :
                      /\ new[k].raw_product_name = file[k].item
                      /\ new[k].price = file[k].price
                      /\ new[k].supplier_pack_size = parse_pack_size(file[k].pack)
                      /\ new[k].bonus_string = file[k].bonus
               /\ Len(history') = Len(history) + Len(old)
               /\ \A h \in Range(history') :
                      Count(history', h) = Count(history, h) + Count(ArchivedOf(old), h)
               /\ \A k \in 1..Len(old) : Count(history', Archived(old[k])) > 0]_vars
C28_Witness ==
    /\ Len(history) = MaxArchive
    /\ \E i, j \in 1..Len(history) : i # j /\ history[i] = history[j]
    /\ \E i, j \in 1..Len(offers) : offers[i].list_tag # offers[j].list_tag

====
